---- MODULE Spec2Model ----
(***************************************************************************)
(* rust-ices-triage-scan (src/src/main.rs): the driver `main` pulls the    *)
(* open ICE issues page by page (get_issues), takes the first rust code    *)
(* block of each issue (get_mcves) and compiles it under every toolchain   *)
(* of TOOLCHAINS concurrently (run_test inside a FuturesUnordered), then   *)
(* sorts the collected results by toolchain index and prints one row.      *)
(*                                                                         *)
(* Toolchain indices are 1-based here (0-based in the source).  A page URL *)
(* is modelled by its page number, an issue's html_url by the number of    *)
(* the issue in fetch order, a text by a sequence of words.                *)
(***************************************************************************)
EXTENDS Naturals, Integers, Sequences, FiniteSets, TLC

(* ---------------------------- bounds ----------------------------------- *)

\* length of TOOLCHAINS (the command line arguments)
NumToolchains == 2

\* number of pages the issue tracker serves at most
MaxPages == 2

\* number of issues on one page at most
MaxPerPage == 2

\* number of open issues the issue tracker has at most
MaxIssues == 2

\* number of chunks a captured compiler output is concatenated from
MaxChunks == 3

\* the longest row print_row is applied to by itself
MaxRow == 4

\* the most fenced blocks of a body get_mcves is applied to by itself
MaxBlocks == 2

\* the most rows rendered before the report the counter is followed through,
\* short of the rows that bring the counter to its last values
MaxRendered == 30

(* ------------------------- program constants --------------------------- *)

\* the width of the row counter `i`
U16 == 65536

\* the header is printed when i % 10 == 0
HeaderEvery == 10

\* ISSUES_URL, the first page
ISSUES_URL == 1

TOOLCHAINS == 1..NumToolchains

\* Option: None, Some(v)
None == <<>>

Some(v) == <<v>>

\* enum CompilationResult
CompilationResult == {"ICE", "Failed", "Compiled", "ToolchainMissing"}

\* enum Error.  Serde, Reqwest arise in get_issues; Io, Persist,
\* PathPersist in run_test.
Error == {"Io", "PathPersist", "Persist", "Reqwest", "Serde"}

Ok(v) == [ok |-> TRUE, val |-> v]

Err(e) == [ok |-> FALSE, val |-> e]

(* ------------------------ texts and classification --------------------- *)

ToolchainMarker == <<"toolchain">>

NotInstalledMarker == <<"is", "not", "installed">>

IceMarker == <<"internal", "compiler", "error">>

\* str::contains: pat occurs in text as a contiguous run
contains(text, pat) ==
    \E s \in 0..(Len(text) - Len(pat)) :
        SubSeq(text, s + 1, s + Len(pat)) = pat

\* classify with the internal-compiler-error marker looked for first
classify_ice_first(success, buffer) ==
    IF success
    THEN "Compiled"
    ELSE IF contains(buffer, IceMarker)
         THEN "ICE"
         ELSE IF contains(buffer, ToolchainMarker) /\ contains(buffer, NotInstalledMarker)
              THEN "ToolchainMissing"
              ELSE "Failed"

\* the outcome of one finished compilation, from the exit status and the
\* text read back from the capture file (main.rs 143-154); the file is not
\* read, and buffer not looked at, after a successful exit
classify(success, buffer) ==
    IF success
    THEN "Compiled"
    ELSE IF contains(buffer, ToolchainMarker) /\ contains(buffer, NotInstalledMarker)
         THEN "ToolchainMissing"
         ELSE IF contains(buffer, IceMarker)
              THEN "ICE"
              ELSE "Failed"

\* pieces of compiler output; whole markers, parts of markers, other words
Chunks ==
    { <<"toolchain">>, <<"is", "not", "installed">>,
      <<"internal", "compiler", "error">>,
      <<"is", "not">>, <<"installed">>, <<"internal">>,
      <<"compiler", "error">>, <<"error">> }

RECURSIVE TextsOf(_)
TextsOf(n) ==
    IF n = 0
    THEN { <<>> }
    ELSE LET shorter == TextsOf(n - 1)
         IN  shorter \cup { t \o c : t \in shorter, c \in Chunks }

\* every captured output of at most MaxChunks chunks
Texts == TextsOf(MaxChunks)

\* the ways a subprocess of the driver model ends: exit status and output
ExitSamples ==
    { [success |-> TRUE,  text |-> <<"internal", "compiler", "error">>],
      [success |-> FALSE, text |-> <<"error">>],
      [success |-> FALSE, text |-> <<"internal", "compiler", "error">>],
      [success |-> FALSE, text |-> <<"internal", "compiler", "error",
                                     "toolchain", "x", "is", "not", "installed">>] }

(* ------------------------------ issues --------------------------------- *)

\* a body is the sequence of its fenced code blocks; " " is whitespace
BodySamples ==
    { << [lang |-> "text", content |-> <<"x">>] >>,
      << [lang |-> "text", content |-> <<"x">>],
         [lang |-> "rust", content |-> <<" ", "a", " ">>],
         [lang |-> "rust", content |-> <<"b">>] >> }

RECURSIVE trim_start(_)
trim_start(s) ==
    IF s # <<>> /\ Head(s) = " " THEN trim_start(Tail(s)) ELSE s

RECURSIVE trim_end(_)
trim_end(s) ==
    IF s # <<>> /\ s[Len(s)] = " " THEN trim_end(SubSeq(s, 1, Len(s) - 1)) ELSE s

\* str::trim
trim(s) == trim_end(trim_start(s))

\* the block is tagged rust
IsRustBlock(b) == b.lang = "rust"

\* the text of a body: every block is an opening fence (three backticks)
\* followed by its tag, its content and a closing fence, and blocks are
\* separated by whitespace; "tick" is text with a backtick in it that is no
\* fence
RECURSIVE raw(_)
raw(body) ==
    IF body = <<>>
    THEN <<>>
    ELSE <<"fence", Head(body).lang>> \o Head(body).content \o <<"fence">>
         \o (IF Tail(body) = <<>> THEN <<>> ELSE <<" ">> \o raw(Tail(body)))

\* the length of the longest run without a backtick that starts at
\* position p of a text: [^`]+
NoBacktickRun(text, p) ==
    LET stops == { q \in p..Len(text) : text[q] \in {"fence", "tick"} }
    IN  IF stops = {}
        THEN Len(text) + 1 - p
        ELSE (CHOOSE q \in stops : \A r \in stops : q <= r) - p

\* the snippet groups of the successive leftmost matches of
\* ```rust(?P<snippet>[^`]+)``` in a text, from position p on
RECURSIVE captures_from(_, _)
captures_from(text, p) ==
    IF p + 1 > Len(text)
    THEN <<>>
    ELSE LET m == NoBacktickRun(text, p + 2)
         IN  IF /\ text[p] = "fence"
                /\ text[p + 1] = "rust"
                /\ m >= 1
                /\ p + 2 + m <= Len(text)
                /\ text[p + 2 + m] = "fence"
             THEN <<SubSeq(text, p + 2, p + 1 + m)>>
                  \o captures_from(text, p + 3 + m)
             ELSE captures_from(text, p + 1)

\* CODEBLOCK_REGEXP.captures_iter
captures_iter(text) == captures_from(text, 1)

\* the trimmed snippets of the matches in a body, in order; the text of the
\* body and its matches are computed once
get_mcves(body) ==
    LET trimmed(found) == [j \in 1..Len(found) |-> trim(found[j])]
    IN  CHOOSE mcves \in { trimmed(found) :
                             found \in { captures_iter(text) :
                                           text \in { raw(body) } } } : TRUE

\* the Link header of a response to the fetch of page p
LinkSamples(p) ==
    { None,
      Some(<< [rel |-> "prev", url |-> p], [rel |-> "next", url |-> p + 1],
              [rel |-> "last", url |-> p + 1] >>),
      Some(<< [rel |-> "next", url |-> p + 1] >>),
      Some(<< [rel |-> "prev", url |-> p], [rel |-> "first", url |-> ISSUES_URL] >>) }

RECURSIVE find_next(_)
find_next(links) ==
    IF links = <<>>
    THEN None
    ELSE IF Head(links).rel = "next"
         THEN Some(Head(links).url)
         ELSE find_next(Tail(links))

\* get_next_link taking the first entry of the Link header, whatever its rel
get_next_link_first(link) ==
    IF link = None THEN None ELSE Some(link[1][1].url)

\* the url of the first rel="next" entry of the Link header, if any
get_next_link(link) ==
    IF link = None THEN None ELSE find_next(link[1])

\* all pages of at most n issue bodies
RECURSIVE PagesOf(_)
PagesOf(n) ==
    IF n = 0
    THEN { <<>> }
    ELSE LET shorter == PagesOf(n - 1)
         IN  shorter \cup { Append(p, b) : p \in shorter, b \in BodySamples }

PageSamples == PagesOf(MaxPerPage)

NoIssue == [html_url |-> 0, body |-> <<>>]

(* ------------------------------ rows ----------------------------------- *)

\* changed comparing the first outcome with the last only
changed_ends(results) ==
    Len(results) >= 2 /\ results[1] # results[Len(results)]

\* !results.windows(2).all(|w| w[0] == w[1])
changed(results) ==
    ~ \A w \in 1..(Len(results) - 1) : results[w] = results[w + 1]

NoRow == [html_url |-> 0, results |-> <<>>, changed |-> FALSE]

RECURSIVE insert_by_key(_, _)
insert_by_key(sorted, el) ==
    IF sorted = <<>>
    THEN <<el>>
    ELSE IF el.index < Head(sorted).index
         THEN <<el>> \o sorted
         ELSE <<Head(sorted)>> \o insert_by_key(Tail(sorted), el)

\* sort_by_key left out: the results stay in completion order
sort_by_key_omitted(v) == v

RECURSIVE sort_by_key(_)
\* results.sort_by_key(|el| el.0), a stable sort
sort_by_key(v) ==
    IF v = <<>>
    THEN <<>>
    ELSE insert_by_key(sort_by_key(SubSeq(v, 1, Len(v) - 1)), v[Len(v)])

(* --------------------------- temporary files --------------------------- *)

\* the fallible steps of run_test before the await, in program order
FailPoints ==
    { "stdin_new", "stdin_keep", "write", "artifact_new", "artifact_keep",
      "stdout_new", "stdout_keep", "try_clone", "spawn" }

\* the number of temporary files created when run_test gets as far as fp
Created(fp) ==
    CASE fp = "stdin_new" -> 0
      [] fp \in {"stdin_keep", "write", "artifact_new"} -> 1
      [] fp \in {"artifact_keep", "stdout_new"} -> 2
      [] OTHER -> 3

\* the error a failure at fp is converted to by `?`
ErrorOf(fp) ==
    CASE fp \in {"stdin_keep", "stdout_keep"} -> "Persist"
      [] fp = "artifact_keep" -> "PathPersist"
      [] OTHER -> "Io"

\* TempName with the files named after the issue only
TempName_of_issue(url, index, j) == ((url - 1) * NumToolchains) * 3 + j

\* NamedTempFile::new() creates a file under a name no existing file has;
\* the j-th of the three files of the execution of toolchain index for issue
\* url is named after them, by a number that no other url, index and j
\* give; the names of the files of the issues 1..u are the numbers
\* 1..TempName(u, NumToolchains, 3)
TempName(url, index, j) == ((url - 1) * NumToolchains + (index - 1)) * 3 + j

NoTmp == [stdin_path |-> None, artifact_path |-> None, stdout_path |-> None]

VARIABLES
    mainpc,               \* where main is: "next", "collect", "done", "panicked"
    i,                    \* the row counter of main
    issues_without_mcve,  \* the issues main found no reproducer in
    issue,                \* the issue of the current loop iteration
    mcve,                 \* its reproducer
    next_url,             \* get_issues: the page to fetch next, or None
    buffered,             \* get_issues: the issues of the page not yet yielded
    fetches,              \* the number of pages requested so far
    served,               \* the number of issues the tracker has served
    pages,                \* the responses received: the url requested, whether the
                          \* response has a rel="next" link, its issues
    yielded,              \* the issues get_issues has yielded to main, in order
    fetch_error,          \* the Error get_issues has yielded, or None
    tested,               \* the html_urls main has created the executions for, in order
    pc,                   \* per toolchain: "none", "created", "waiting", "done"
    proc,                 \* per toolchain: the subprocess, "none", "running", "hung", "exited"
    status,               \* per toolchain: output.status.success()
    capture,              \* per toolchain: the content of the capture file
    buffer,               \* per toolchain: the text read back, or None
    tmp,                  \* per toolchain: the temporary files of the execution
    held,                 \* per toolchain: files owned by a returned Persist error
    owner,                \* per toolchain: the html_url of the issue it runs for
    failure,              \* per toolchain: the Error run_test returned, "none" if none
    results,              \* the (index, result) pairs collected so far
    completion,           \* the toolchain indices in order of completion
    files,                \* the temporary files that exist
    out,                  \* what has been printed
    lastRow               \* the row print_row was last called with in this iteration

driver == <<mainpc, i, issues_without_mcve, issue, mcve, tested>>

stream == <<next_url, buffered, fetches, served, pages, yielded, fetch_error>>

execs == <<pc, proc, status, capture, buffer, tmp, held, owner, failure,
           results, completion>>

vars == <<driver, stream, execs, files, out, lastRow>>

NoExecs ==
    /\ pc = [k \in TOOLCHAINS |-> "none"]
    /\ proc = [k \in TOOLCHAINS |-> "none"]
    /\ status = [k \in TOOLCHAINS |-> FALSE]
    /\ capture = [k \in TOOLCHAINS |-> <<>>]
    /\ buffer = [k \in TOOLCHAINS |-> None]
    /\ tmp = [k \in TOOLCHAINS |-> NoTmp]
    /\ held = [k \in TOOLCHAINS |-> {}]
    /\ owner = [k \in TOOLCHAINS |-> 0]
    /\ failure = [k \in TOOLCHAINS |-> "none"]
    /\ results = <<>>
    /\ completion = <<>>

Init ==
    /\ mainpc = "next"
    /\ i = 0
    /\ issues_without_mcve = <<>>
    /\ issue = NoIssue
    /\ mcve = None
    /\ next_url = Some(ISSUES_URL)
    /\ buffered = <<>>
    /\ fetches = 0
    /\ served = 0
    /\ pages = <<>>
    /\ yielded = <<>>
    /\ fetch_error = None
    /\ tested = <<>>
    /\ NoExecs
    /\ files = {}
    /\ out = <<>>
    /\ lastRow = NoRow

(* ------------------------------ get_issues ----------------------------- *)

\* the locals of a finished loop iteration of main go out of scope
DropIteration ==
    /\ issue' = NoIssue
    /\ mcve' = None
    /\ lastRow' = NoRow
    /\ pc' = [k \in TOOLCHAINS |-> "none"]
    /\ proc' = [k \in TOOLCHAINS |-> "none"]
    /\ status' = [k \in TOOLCHAINS |-> FALSE]
    /\ capture' = [k \in TOOLCHAINS |-> <<>>]
    /\ buffer' = [k \in TOOLCHAINS |-> None]
    /\ tmp' = [k \in TOOLCHAINS |-> NoTmp]
    /\ held' = [k \in TOOLCHAINS |-> {}]
    /\ owner' = [k \in TOOLCHAINS |-> 0]
    /\ failure' = [k \in TOOLCHAINS |-> "none"]
    /\ results' = <<>>
    /\ completion' = <<>>

\* a panic of main: the error values in scope are dropped while unwinding,
\* and with them the temporary files a Persist error still owns
Panic ==
    /\ mainpc' = "panicked"
    /\ files' = files \ UNION { held[k] : k \in TOOLCHAINS }

\* the Link header has an entry with rel="next"
HasNext(link) ==
    link # None /\ \E j \in 1..Len(link[1]) : link[1][j].rel = "next"

\* stream_error with the error logged and the loop of main going on
stream_error_skipped(e) ==
    /\ fetch_error' = Some(e)
    /\ UNCHANGED <<mainpc, files>>

\* get_issues yields Err(e) and ends; main unwraps it (main.rs 216)
stream_error(e) ==
    /\ fetch_error' = Some(e)
    /\ Panic

\* get_issues resumed with no issue left of the current page: one request
\* (main.rs 82-91).  A failure is yielded as Err by `?`.
get_issues_fetch ==
    /\ mainpc = "next"
    /\ buffered = <<>>
    /\ next_url # None
    /\ fetches' = fetches + 1
    /\ \/ \* send().await? fails
          /\ stream_error("Reqwest")
          /\ UNCHANGED <<next_url, buffered, served, pages, yielded>>
          /\ UNCHANGED <<i, issues_without_mcve, issue, mcve, tested, execs, out,
                         lastRow>>
       \/ \E link \in LinkSamples(next_url[1]) :
            /\ HasNext(link) => fetches + 1 < MaxPages
            /\ next_url' = get_next_link(link)
            /\ \/ \* response.text().await? or serde_json::from_str fails
                  /\ \E e \in {"Reqwest", "Serde"} : stream_error(e)
                  /\ UNCHANGED <<buffered, served, pages, yielded>>
                  /\ UNCHANGED <<i, issues_without_mcve, issue, mcve, tested, execs,
                                 out, lastRow>>
               \/ \E page \in PageSamples :
                    /\ served + Len(page) <= MaxIssues
                    /\ buffered' = [j \in 1..Len(page) |->
                                      [html_url |-> served + j, body |-> page[j]]]
                    /\ served' = served + Len(page)
                    /\ pages' = Append(pages, [url |-> next_url[1],
                                               next |-> HasNext(link),
                                               items |-> buffered'])
                    /\ DropIteration
                    /\ UNCHANGED <<mainpc, i, issues_without_mcve, tested, files,
                                   out, yielded, fetch_error>>

(* ------------------------------- run_test ------------------------------ *)

\* run_test_start awaited one toolchain after the other
run_test_start_serial(index) ==
    /\ mainpc = "collect"
    /\ pc[index] = "created"
    /\ \A j \in 1..(index - 1) : pc[j] = "done"
    /\ pc' = [pc EXCEPT ![index] = "waiting"]
    /\ proc' = [proc EXCEPT ![index] = "running"]
    /\ files' = files \cup { TempName(owner[index], index, j) : j \in 1..3 }
    /\ tmp' = [tmp EXCEPT ![index] =
                 [stdin_path |-> Some(TempName(owner[index], index, 1)),
                  artifact_path |-> Some(TempName(owner[index], index, 2)),
                  stdout_path |-> Some(TempName(owner[index], index, 3))]]
    /\ UNCHANGED <<driver, stream, status, capture, buffer, held, owner, failure,
                   results, completion, out, lastRow>>

\* the first poll of the future of toolchain index: run_test up to the
\* await of the subprocess (main.rs 121-140), no suspension in between
run_test_start(index) ==
    /\ mainpc = "collect"
    /\ pc[index] = "created"
    /\ \E fp \in FailPoints \cup {"none"}, hangs \in BOOLEAN :
         LET n == Created(fp)
             name(j) == TempName(owner[index], index, j)
             file(j) == IF j <= n THEN Some(name(j)) ELSE None
         IN  /\ files' = files \cup { name(j) : j \in 1..n }
             /\ tmp' = [tmp EXCEPT ![index] =
                          [stdin_path |-> file(1), artifact_path |-> file(2),
                           stdout_path |-> file(3)]]
             /\ IF fp = "none"
                THEN /\ pc' = [pc EXCEPT ![index] = "waiting"]
                     /\ proc' = [proc EXCEPT ![index] =
                                   IF hangs THEN "hung" ELSE "running"]
                     /\ UNCHANGED <<held, failure, results, completion>>
                ELSE /\ hangs = FALSE
                     /\ pc' = [pc EXCEPT ![index] = "done"]
                     /\ held' = [held EXCEPT ![index] =
                                   IF ErrorOf(fp) = "Io" THEN {} ELSE {name(n)}]
                     /\ results' = Append(results,
                                     [index |-> index, result |-> Err(ErrorOf(fp))])
                     /\ completion' = Append(completion, index)
                     /\ failure' = [failure EXCEPT ![index] = ErrorOf(fp)]
                     /\ UNCHANGED proc
    /\ UNCHANGED <<driver, stream, status, capture, buffer, owner, out, lastRow>>

\* the subprocess of toolchain index exits, having written its output to
\* the capture file
subprocess_exit(index) ==
    /\ proc[index] = "running"
    /\ \E exit \in ExitSamples :
         /\ status' = [status EXCEPT ![index] = exit.success]
         /\ capture' = [capture EXCEPT ![index] = exit.text]
    /\ proc' = [proc EXCEPT ![index] = "exited"]
    /\ UNCHANGED <<driver, stream, pc, buffer, tmp, held, owner, failure,
                   results, completion, files, out, lastRow>>

\* run_test_finish without the await: the capture file is read while the
\* subprocess is still running
run_test_finish_early(index) ==
    /\ mainpc = "collect"
    /\ pc[index] = "waiting"
    /\ proc[index] \in {"running", "exited"}
    /\ pc' = [pc EXCEPT ![index] = "done"]
    /\ completion' = Append(completion, index)
    /\ buffer' = [buffer EXCEPT ![index] = Some(capture[index])]
    /\ results' = Append(results,
                    [index |-> index,
                     result |-> Ok(classify(status[index], capture[index]))])
    /\ UNCHANGED <<driver, stream, proc, status, capture, tmp, held, owner,
                   failure, files, out, lastRow>>

\* wait_with_output() resolves: run_test from the await to its return
\* (main.rs 141-156)
run_test_finish(index) ==
    /\ mainpc = "collect"
    /\ pc[index] = "waiting"
    /\ proc[index] = "exited"
    /\ pc' = [pc EXCEPT ![index] = "done"]
    /\ completion' = Append(completion, index)
    /\ \/ \* .await? fails
          /\ results' = Append(results, [index |-> index, result |-> Err("Io")])
          /\ failure' = [failure EXCEPT ![index] = "Io"]
          /\ UNCHANGED buffer
       \/ /\ status[index]
          /\ results' = Append(results,
                          [index |-> index,
                           result |-> Ok(classify(status[index], <<>>))])
          /\ UNCHANGED <<buffer, failure>>
       \/ \* read_to_string fails
          /\ ~status[index]
          /\ results' = Append(results, [index |-> index, result |-> Err("Io")])
          /\ failure' = [failure EXCEPT ![index] = "Io"]
          /\ UNCHANGED buffer
       \/ /\ ~status[index]
          /\ buffer' = [buffer EXCEPT ![index] = Some(capture[index])]
          /\ results' = Append(results,
                          [index |-> index,
                           result |-> Ok(classify(status[index], capture[index]))])
          /\ UNCHANGED failure
    /\ UNCHANGED <<driver, stream, proc, status, capture, tmp, held, owner,
                   files, out, lastRow>>

(* --------------------------------- main -------------------------------- *)

\* print_headers
print_headers(o) == Append(o, [kind |-> "header", html_url |-> 0])

\* print_row
print_row(o, html_url) == Append(o, [kind |-> "row", html_url |-> html_url])

\* main_next_issue for an issue with a reproducer, not waiting for the
\* executions of the issue before
main_next_issue_overlap ==
    /\ buffered # <<>>
    /\ get_mcves(Head(buffered).body) # <<>>
    /\ buffered' = Tail(buffered)
    /\ issue' = Head(buffered)
    /\ mcve' = Some(Head(get_mcves(Head(buffered).body)))
    /\ mainpc' = "collect"
    /\ lastRow' = NoRow
    /\ pc' = [k \in TOOLCHAINS |-> "created"]
    /\ proc' = [k \in TOOLCHAINS |-> "none"]
    /\ status' = [k \in TOOLCHAINS |-> FALSE]
    /\ capture' = [k \in TOOLCHAINS |-> <<>>]
    /\ buffer' = [k \in TOOLCHAINS |-> None]
    /\ tmp' = [k \in TOOLCHAINS |-> NoTmp]
    /\ held' = [k \in TOOLCHAINS |-> {}]
    /\ owner' = [k \in TOOLCHAINS |-> Head(buffered).html_url]
    /\ failure' = [k \in TOOLCHAINS |-> "none"]
    /\ results' = <<>>
    /\ completion' = <<>>
    /\ yielded' = Append(yielded, Head(buffered))
    /\ tested' = Append(tested, Head(buffered).html_url)
    /\ UNCHANGED <<i, issues_without_mcve, next_url, fetches, served, pages,
                   fetch_error, files, out>>

\* the stream yields the next issue: main.rs 215-227 with a reproducer
\* (the futures are created, none is polled yet), 240 without
main_next_issue ==
    /\ mainpc = "next"
    /\ buffered # <<>>
    /\ buffered' = Tail(buffered)
    /\ yielded' = Append(yielded, Head(buffered))
    /\ LET next == Head(buffered)
           mcves == get_mcves(next.body)
       IN  IF mcves # <<>>
           THEN /\ issue' = next
                /\ mcve' = Some(Head(mcves))
                /\ mainpc' = "collect"
                /\ lastRow' = NoRow
                /\ pc' = [k \in TOOLCHAINS |-> "created"]
                /\ proc' = [k \in TOOLCHAINS |-> "none"]
                /\ status' = [k \in TOOLCHAINS |-> FALSE]
                /\ capture' = [k \in TOOLCHAINS |-> <<>>]
                /\ buffer' = [k \in TOOLCHAINS |-> None]
                /\ tmp' = [k \in TOOLCHAINS |-> NoTmp]
                /\ held' = [k \in TOOLCHAINS |-> {}]
                /\ owner' = [k \in TOOLCHAINS |-> next.html_url]
                /\ failure' = [k \in TOOLCHAINS |-> "none"]
                /\ results' = <<>>
                /\ completion' = <<>>
                /\ tested' = Append(tested, next.html_url)
                /\ UNCHANGED issues_without_mcve
           ELSE /\ issues_without_mcve' = Append(issues_without_mcve, next)
                /\ DropIteration
                /\ UNCHANGED <<mainpc, tested>>
    /\ UNCHANGED <<i, next_url, fetches, served, pages, fetch_error, files, out>>

\* main.rs 231-238 on the results collected, once the collection is Ready
CollectWhen(Ready) ==
    /\ mainpc = "collect"
    /\ Ready
    /\ results' = sort_by_key(results)
    /\ IF \E j \in 1..Len(results) : ~results[j].result.ok
       THEN \* el.1.unwrap() panics
            /\ Panic
            /\ UNCHANGED <<i, out, lastRow>>
       ELSE LET sorted == sort_by_key(results)
                row == [j \in 1..Len(sorted) |-> sorted[j].result.val]
            IN  /\ out' = print_row(IF i % HeaderEvery = 0
                                    THEN print_headers(out) ELSE out,
                                    issue.html_url)
                /\ lastRow' = [html_url |-> issue.html_url, results |-> row,
                               changed |-> changed(row)]
                /\ \/ \* i += 1, wrapping where the build has no overflow checks
                      /\ i' = (i + 1) % U16
                      /\ mainpc' = "next"
                      /\ UNCHANGED files
                   \/ \* i += 1 panics where the build has overflow checks
                      /\ i + 1 = U16
                      /\ Panic
                      /\ UNCHANGED i
    /\ UNCHANGED <<issues_without_mcve, issue, mcve, tested, stream, pc, proc,
                   status, capture, buffer, tmp, held, owner, failure, completion>>

\* main_collect waiting for one result more than there are executions
main_collect_extra ==
    CollectWhen(Len(results) > NumToolchains)

\* main_collect resolving at the first error, as try_collect would
main_collect_try ==
    CollectWhen(\/ \A k \in TOOLCHAINS : pc[k] = "done"
                \/ \E j \in 1..Len(results) : ~results[j].result.ok)

\* main_collect resolving at the first completion
main_collect_first ==
    CollectWhen(\E k \in TOOLCHAINS : pc[k] = "done")

\* main_collect giving up on a subprocess that does not exit
main_collect_timeout ==
    CollectWhen(\A k \in TOOLCHAINS : pc[k] = "done" \/ proc[k] = "hung")

\* stream.collect().await resolves when every future has completed:
\* main.rs 229-238
main_collect ==
    CollectWhen(\A k \in TOOLCHAINS : pc[k] = "done")

\* the stream has ended: main.rs 244-248
main_finish ==
    /\ mainpc = "next"
    /\ buffered = <<>>
    /\ next_url = None
    /\ mainpc' = "done"
    /\ out' = out \o << [kind |-> "blank", html_url |-> 0],
                        [kind |-> "title", html_url |-> 0] >>
                  \o [j \in 1..Len(issues_without_mcve) |->
                        [kind |-> "url", html_url |-> issues_without_mcve[j].html_url]]
    /\ DropIteration
    /\ UNCHANGED <<i, issues_without_mcve, tested, stream, files>>

Next ==
    \/ get_issues_fetch
    \/ main_next_issue
    \/ \E index \in TOOLCHAINS : run_test_start(index)
    \/ \E index \in TOOLCHAINS : subprocess_exit(index)
    \/ \E index \in TOOLCHAINS : run_test_finish(index)
    \/ main_collect
    \/ main_finish

Spec == Init /\ [][Next]_vars

(* ------------- the run without errors, under fair scheduling ----------- *)

\* the step yields no error in get_issues or run_test, main does not panic,
\* and no subprocess is launched that never exits
NoError ==
    /\ mainpc' # "panicked"
    /\ fetch_error' = None
    /\ \A k \in TOOLCHAINS : failure'[k] = "none" /\ proc'[k] # "hung"

\* the steps of main and of the stream it polls
MainLive ==
    \/ get_issues_fetch /\ NoError
    \/ main_next_issue /\ NoError
    \/ main_collect /\ NoError
    \/ main_finish /\ NoError

\* the steps of the execution of toolchain index and of its subprocess
RunLive(index) ==
    \/ run_test_start(index) /\ NoError
    \/ subprocess_exit(index) /\ NoError
    \/ run_test_finish(index) /\ NoError

NextLive ==
    \/ MainLive
    \/ \E index \in TOOLCHAINS : RunLive(index)

\* main runs whenever it can, every execution is polled whenever it can
\* proceed, and every subprocess exits
SpecLive ==
    /\ Init
    /\ [][NextLive]_vars
    /\ WF_vars(MainLive)
    /\ \A index \in TOOLCHAINS : WF_vars(RunLive(index))

(* ----------------- classification over all captured texts -------------- *)

\* the execution of the first toolchain for the first issue awaits a
\* subprocess that has exited with any status and any captured text
InitClassify ==
    /\ mainpc = "collect"
    /\ i = 0
    /\ issues_without_mcve = <<>>
    /\ \E body \in BodySamples :
         /\ get_mcves(body) # <<>>
         /\ issue = [html_url |-> 1, body |-> body]
         /\ mcve = Some(Head(get_mcves(body)))
    /\ next_url = None
    /\ buffered = <<>>
    /\ fetches = 1
    /\ served = 1
    /\ pages = <<[url |-> ISSUES_URL, next |-> FALSE, items |-> <<issue>>]>>
    /\ yielded = <<issue>>
    /\ fetch_error = None
    /\ tested = <<1>>
    /\ pc = [k \in TOOLCHAINS |-> IF k = 1 THEN "waiting" ELSE "created"]
    /\ proc = [k \in TOOLCHAINS |-> IF k = 1 THEN "exited" ELSE "none"]
    /\ \E success \in BOOLEAN, text \in Texts :
         /\ status = [k \in TOOLCHAINS |-> IF k = 1 THEN success ELSE FALSE]
         /\ capture = [k \in TOOLCHAINS |-> IF k = 1 THEN text ELSE <<>>]
    /\ buffer = [k \in TOOLCHAINS |-> None]
    /\ tmp = [k \in TOOLCHAINS |->
                IF k = 1
                THEN [stdin_path |-> Some(TempName(1, 1, 1)),
                      artifact_path |-> Some(TempName(1, 1, 2)),
                      stdout_path |-> Some(TempName(1, 1, 3))]
                ELSE NoTmp]
    /\ held = [k \in TOOLCHAINS |-> {}]
    /\ owner = [k \in TOOLCHAINS |-> 1]
    /\ failure = [k \in TOOLCHAINS |-> "none"]
    /\ results = <<>>
    /\ completion = <<>>
    /\ files = { TempName(1, 1, j) : j \in 1..3 }
    /\ out = <<>>
    /\ lastRow = NoRow

NextClassify == \E index \in TOOLCHAINS : run_test_finish(index)

SpecClassify == InitClassify /\ [][NextClassify]_vars

(* ------------------- print_row over rows of any length ----------------- *)

\* the rows of n outcomes
RECURSIVE RowsOfLen(_)
RowsOfLen(n) ==
    IF n = 0 THEN { <<>> }
    ELSE { Append(r, c) : r \in RowsOfLen(n - 1), c \in CompilationResult }

\* main holds the sorted, error-free results of the first issue under a list
\* of toolchains of any length up to MaxRow
InitChanged ==
    /\ mainpc = "collect"
    /\ i = 0
    /\ issues_without_mcve = <<>>
    /\ \E body \in BodySamples :
         /\ get_mcves(body) # <<>>
         /\ issue = [html_url |-> 1, body |-> body]
         /\ mcve = Some(Head(get_mcves(body)))
    /\ next_url = None
    /\ buffered = <<>>
    /\ fetches = 1
    /\ served = 1
    /\ pages = <<[url |-> ISSUES_URL, next |-> FALSE, items |-> <<issue>>]>>
    /\ yielded = <<issue>>
    /\ fetch_error = None
    /\ tested = <<1>>
    /\ pc = [k \in TOOLCHAINS |-> "done"]
    /\ proc = [k \in TOOLCHAINS |-> "exited"]
    /\ status = [k \in TOOLCHAINS |-> TRUE]
    /\ capture = [k \in TOOLCHAINS |-> <<>>]
    /\ buffer = [k \in TOOLCHAINS |-> None]
    /\ tmp = [k \in TOOLCHAINS |-> NoTmp]
    /\ held = [k \in TOOLCHAINS |-> {}]
    /\ owner = [k \in TOOLCHAINS |-> 1]
    /\ failure = [k \in TOOLCHAINS |-> "none"]
    /\ \E n \in 0..MaxRow : \E row \in RowsOfLen(n) :
         results = [k \in 1..n |-> [index |-> k, result |-> Ok(row[k])]]
    /\ completion = <<>>
    /\ files = {}
    /\ out = <<>>
    /\ lastRow = NoRow

\* main.rs 232-237 on the results held: the row is rendered
print_row_call ==
    /\ mainpc = "collect"
    /\ lastRow = NoRow
    /\ LET row == [j \in 1..Len(results) |-> results[j].result.val]
       IN  /\ out' = print_row(IF i % HeaderEvery = 0
                               THEN print_headers(out) ELSE out,
                               issue.html_url)
           /\ lastRow' = [html_url |-> issue.html_url, results |-> row,
                          changed |-> changed(row)]
    /\ UNCHANGED <<mainpc, i, issues_without_mcve, issue, mcve, tested, stream,
                   execs, files>>

NextChanged == print_row_call

SpecChanged == InitChanged /\ [][NextChanged]_vars

(* --------------------- get_mcves over fenced bodies -------------------- *)

\* contents of a fenced block: code, whitespace alone, code with a backtick
ContentSamples ==
    { <<" ", "a", " ">>, <<"b">>, <<" ">>, <<"tick", "a">>, <<"a", " ", "tick">> }

BlockSamples ==
    { [lang |-> l, content |-> c] : l \in {"rust", "text"}, c \in ContentSamples }

\* the bodies of at most n fenced blocks
RECURSIVE BodiesOf(_)
BodiesOf(n) ==
    IF n = 0
    THEN { <<>> }
    ELSE LET shorter == BodiesOf(n - 1)
         IN  shorter \cup { Append(b, x) : b \in shorter, x \in BlockSamples }

\* get_issues has fetched the only page, of one issue with any body, and
\* main is about to take the issue
InitMcves ==
    /\ mainpc = "next"
    /\ i = 0
    /\ issues_without_mcve = <<>>
    /\ issue = NoIssue
    /\ mcve = None
    /\ next_url = None
    /\ \E body \in BodiesOf(MaxBlocks) :
         buffered = << [html_url |-> 1, body |-> body] >>
    /\ fetches = 1
    /\ served = 1
    /\ pages = <<[url |-> ISSUES_URL, next |-> FALSE, items |-> buffered]>>
    /\ yielded = <<>>
    /\ fetch_error = None
    /\ tested = <<>>
    /\ NoExecs
    /\ files = {}
    /\ out = <<>>
    /\ lastRow = NoRow

NextMcves == main_next_issue

SpecMcves == InitMcves /\ [][NextMcves]_vars

(* ------------------- the row counter after many rows ------------------ *)

\* the numbers of rows rendered before the report looked at
CounterSamples == 0..MaxRendered \cup {U16 - 1}

\* what has been printed after n rows, for the issues 1..n
OutAfter(n) ==
    [e \in 1..(n + (n + HeaderEvery - 1) \div HeaderEvery) |->
        IF (e - 1) % (HeaderEvery + 1) = 0
        THEN [kind |-> "header", html_url |-> 0]
        ELSE [kind |-> "row",
              html_url |-> (((e - 1) \div (HeaderEvery + 1)) * HeaderEvery)
                           + ((e - 1) % (HeaderEvery + 1))]]

\* a body with a reproducer
TestedBody == CHOOSE b \in BodySamples : get_mcves(b) # <<>>

\* main has rendered the rows of n issues with a reproducer, holds the
\* results of the executions of the next one, all compiled, and the stream
\* has one more issue to yield, the last of the only page
InitCounter ==
    \E n \in CounterSamples, last \in BodySamples :
        LET body == TestedBody
            items == [j \in 1..(n + 2) |->
                        [html_url |-> j,
                         body |-> IF j = n + 2 THEN last ELSE body]]
        IN  /\ mainpc = "collect"
            /\ i = n
            /\ issues_without_mcve = <<>>
            /\ issue = items[n + 1]
            /\ mcve = Some(Head(get_mcves(body)))
            /\ next_url = None
            /\ buffered = << items[n + 2] >>
            /\ fetches = 1
            /\ served = n + 2
            /\ pages = <<[url |-> ISSUES_URL, next |-> FALSE, items |-> items]>>
            /\ yielded = SubSeq(items, 1, n + 1)
            /\ fetch_error = None
            /\ tested = [j \in 1..(n + 1) |-> j]
            /\ pc = [k \in TOOLCHAINS |-> "done"]
            /\ proc = [k \in TOOLCHAINS |-> "exited"]
            /\ status = [k \in TOOLCHAINS |-> TRUE]
            /\ capture = [k \in TOOLCHAINS |-> <<>>]
            /\ buffer = [k \in TOOLCHAINS |-> None]
            /\ tmp = [k \in TOOLCHAINS |->
                        [stdin_path |-> Some(TempName(n + 1, k, 1)),
                         artifact_path |-> Some(TempName(n + 1, k, 2)),
                         stdout_path |-> Some(TempName(n + 1, k, 3))]]
            /\ held = [k \in TOOLCHAINS |-> {}]
            /\ owner = [k \in TOOLCHAINS |-> n + 1]
            /\ failure = [k \in TOOLCHAINS |-> "none"]
            /\ results = [k \in TOOLCHAINS |->
                            [index |-> k, result |-> Ok(classify(TRUE, <<>>))]]
            /\ completion = [k \in TOOLCHAINS |-> k]
            /\ files = 1..TempName(n + 1, NumToolchains, 3)
            /\ out = OutAfter(n)
            /\ lastRow = NoRow

NextCounter ==
    \/ main_collect
    \/ main_next_issue
    \/ main_finish

SpecCounter == InitCounter /\ [][NextCounter]_vars

(* ------------------------------ properties ----------------------------- *)

InFlight(k) == pc[k] \in {"created", "waiting"}

\* the collected results have been looked at by main (main.rs 231-232)
Examined == mainpc # "collect" /\ results # <<>>

\* the outcome the execution of toolchain k came to by itself
OwnOutcome(k) == classify(status[k], capture[k])

\* pat occurs in text: text is some prefix, then pat, then some suffix
Occurs(text, pat) ==
    \E a \in 0..Len(text), b \in 0..Len(text) :
        /\ a + Len(pat) + b = Len(text)
        /\ \A j \in 1..Len(pat) : text[a + j] = pat[j]

MissingText(text) ==
    Occurs(text, <<"toolchain">>) /\ Occurs(text, <<"is", "not", "installed">>)

IceText(text) == Occurs(text, <<"internal", "compiler", "error">>)

\* C1: whenever a row is handed to print_row, it has one entry per
\* toolchain and entry k is the outcome of the execution of toolchain k,
\* in whatever order the executions completed
C1_RowInToolchainOrder ==
    lastRow # NoRow =>
        /\ Len(lastRow.results) = NumToolchains
        /\ \A k \in TOOLCHAINS : lastRow.results[k] = OwnOutcome(k)

\* a row was rendered although the last toolchain completed first and the
\* outcomes of the first and the last toolchain differ
C1_Witness ==
    /\ lastRow # NoRow
    /\ completion[1] = NumToolchains
    /\ lastRow.results[1] # lastRow.results[NumToolchains]

\* C2: every execution that returns Ok returns exactly one kind, chosen by
\* first match: success exit -> Compiled; else "toolchain" and "is not
\* installed" both in the text -> ToolchainMissing; else the internal
\* compiler error marker in the text -> ICE; else Failed
C2_ClassifyPrecedence ==
    \A j \in 1..Len(results) :
        LET k == results[j].index
            r == results[j].result
        IN  r.ok =>
              /\ r.val \in CompilationResult
              /\ status[k] => r.val = "Compiled"
              /\ ~status[k] /\ MissingText(capture[k]) => r.val = "ToolchainMissing"
              /\ ~status[k] /\ ~MissingText(capture[k]) /\ IceText(capture[k])
                   => r.val = "ICE"
              /\ ~status[k] /\ ~MissingText(capture[k]) /\ ~IceText(capture[k])
                   => r.val = "Failed"

\* an execution returned ToolchainMissing for a text that also holds the
\* internal compiler error marker
C2_Witness ==
    \E j \in 1..Len(results) :
        /\ results[j].result = Ok("ToolchainMissing")
        /\ IceText(capture[results[j].index])

\* the temporary files that exist and that no value still in scope will
\* delete when it is dropped
Left == files \ UNION { held[k] : k \in TOOLCHAINS }

\* C3: an execution that has ended has left none of its temporary files,
\* and no temporary file is left while no execution is in flight
C3_TempFilesReleased ==
    /\ \A k \in TOOLCHAINS :
         pc[k] = "done" =>
            \A f \in Left : Some(f) \notin
                {tmp[k].stdin_path, tmp[k].artifact_path, tmp[k].stdout_path}
    /\ (\A k \in TOOLCHAINS : ~InFlight(k)) => Left = {}

\* C4: after an execution of the current issue returned an error and the
\* results were collected, main has not panicked and the row of the issue
\* has been rendered with one cell per toolchain
C4_RunnerErrorNotFatal ==
    (Examined /\ \E k \in TOOLCHAINS : failure[k] # "none") =>
        /\ mainpc # "panicked"
        /\ lastRow.html_url = issue.html_url
        /\ Len(lastRow.results) = NumToolchains

\* C5: an error is recorded at the position of the execution that failed
\* and nowhere else, and when main looks at the results every execution
\* has completed, the others each with its own outcome
C5_ErrorsIsolated ==
    /\ \A j \in 1..Len(results) :
         LET k == results[j].index
         IN  /\ results[j].result.ok <=> failure[k] = "none"
             /\ results[j].result.ok => results[j].result = Ok(OwnOutcome(k))
    /\ Examined =>
         /\ Len(results) = NumToolchains
         /\ \A k \in TOOLCHAINS : pc[k] = "done" /\ results[k].index = k

\* main looked at the results after the execution that completed first
\* had failed and a sibling had gone on to the exit of its own subprocess
C5_Witness ==
    /\ Examined
    /\ failure[completion[1]] # "none"
    /\ \E k \in TOOLCHAINS : failure[k] = "none" /\ proc[k] = "exited"

\* C6: while a row of the current iteration is rendered, every execution
\* of the issue has completed and the results are sorted by index
C6_FanIn ==
    lastRow # NoRow =>
        /\ \A k \in TOOLCHAINS : pc[k] = "done" /\ owner[k] = lastRow.html_url
        /\ Len(results) = NumToolchains
        /\ \A j \in 1..Len(results) : results[j].index = j

\* a row flagged as changed has been rendered after the execution of the
\* first toolchain completed last
C6_Witness ==
    /\ lastRow # NoRow
    /\ lastRow.changed
    /\ completion[NumToolchains] = 1

\* C7: no step of an execution waits for a sibling: a created execution
\* can start, a running subprocess can exit and an execution whose
\* subprocess has exited can complete, whatever the siblings are doing
C7_FanOut ==
    \A k \in TOOLCHAINS :
        /\ (mainpc = "collect" /\ pc[k] = "created") => ENABLED run_test_start(k)
        /\ proc[k] = "running" => ENABLED subprocess_exit(k)
        /\ (mainpc = "collect" /\ pc[k] = "waiting" /\ proc[k] = "exited")
              => ENABLED run_test_finish(k)

\* the subprocesses of all toolchains are running at once
C7_Witness ==
    \A k \in TOOLCHAINS : pc[k] = "waiting" /\ proc[k] = "running"

\* C8: every execution in flight belongs to the issue main is working on,
\* and the executions of an issue are created only when none of the issue
\* before is in flight and the row of that issue has been rendered
C8_ReportsSequential ==
    /\ [](\A k \in TOOLCHAINS :
            InFlight(k) => mainpc = "collect" /\ owner[k] = issue.html_url)
    /\ [][(\E k \in TOOLCHAINS : pc'[k] = "created" /\ owner'[k] # owner[k]) =>
            \A j \in TOOLCHAINS :
                /\ ~InFlight(j)
                /\ pc[j] = "done" =>
                     \E e \in 1..Len(out) :
                        out[e] = [kind |-> "row", html_url |-> owner[j]]]_vars

\* an execution of a later issue is in flight after a row was rendered
C8_Witness ==
    /\ \E k \in TOOLCHAINS : pc[k] = "waiting"
    /\ \E e \in 1..Len(out) : out[e].kind = "row"

\* C9: the capture file of an execution has been read only if the
\* subprocess of that execution has exited, and what was read is what the
\* subprocess left in the file
C9_ReadAfterExit ==
    \A k \in TOOLCHAINS :
        buffer[k] # None => proc[k] = "exited" /\ buffer[k] = Some(capture[k])

\* a capture file has been read while a sibling subprocess still runs
C9_Witness ==
    \E k, j \in TOOLCHAINS :
        buffer[k] # None /\ buffer[k] # Some(<<>>) /\ proc[j] = "running"

\* C10: from a state in which a subprocess of the current issue never
\* exits, no step renders a row, starts another issue or ends the run,
\* and the subprocess is still there afterwards
C10_HungStallsForever ==
    [][(\E k \in TOOLCHAINS : proc[k] = "hung") =>
          /\ \E k \in TOOLCHAINS : proc'[k] = "hung"
          /\ mainpc' = "collect"
          /\ out' = out
          /\ lastRow' = NoRow
          /\ issue' = issue
          /\ owner' = owner]_vars

\* one subprocess never exits and every sibling execution has completed
C10_Witness ==
    \E k \in TOOLCHAINS :
        /\ proc[k] = "hung"
        /\ \A j \in TOOLCHAINS \ {k} : pc[j] = "done"


(* --------------------------------- C11 ---------------------------------- *)

\* the html_urls of the rows of the output, in the order of the output
RECURSIVE RowsOf(_)
RowsOf(o) ==
    IF o = <<>> THEN <<>>
    ELSE IF Head(o).kind = "row" THEN <<Head(o).html_url>> \o RowsOf(Tail(o))
         ELSE RowsOf(Tail(o))

\* C11: a transport or decoding failure of a page fetch is fatal: the step
\* that yields it renders nothing and removes nothing of the output, and
\* after it no page is fetched, no execution is created or advanced, and no
\* row is rendered; the rows rendered before it stay as they were.
C11_FetchFailureFatal ==
    [][ /\ fetch_error' # fetch_error => out' = out
        /\ fetch_error # None =>
              /\ fetches' = fetches
              /\ tested' = tested
              /\ pc' = pc
              /\ proc' = proc
              /\ out' = out
              /\ mainpc' = "panicked" ]_vars

\* a page fetch has failed after a row was rendered
C11_Witness ==
    /\ fetch_error # None
    /\ mainpc = "panicked"
    /\ fetches >= 2
    /\ RowsOf(out) # <<>>


(* --------------------------------- C12 ---------------------------------- *)

\* the issues of the pages received, in the order they were served
RECURSIVE Fetched(_)
Fetched(ps) == IF ps = <<>> THEN <<>> ELSE Head(ps).items \o Fetched(Tail(ps))

\* the html_urls of the issues of a sequence that have (b) or lack (~b) a
\* reproducer, in the order of the sequence
RECURSIVE UrlsWhere(_, _)
UrlsWhere(issues, b) ==
    IF issues = <<>> THEN <<>>
    ELSE IF (get_mcves(Head(issues).body) # <<>>) = b
         THEN <<Head(issues).html_url>> \o UrlsWhere(Tail(issues), b)
         ELSE UrlsWhere(Tail(issues), b)

\* the html_urls of the list printed under the title, in the order printed
RECURSIVE ListOf(_)
ListOf(o) ==
    IF o = <<>> THEN <<>>
    ELSE IF Head(o).kind = "url" THEN <<Head(o).html_url>> \o ListOf(Tail(o))
         ELSE ListOf(Tail(o))

IsPrefix(a, b) == Len(a) <= Len(b) /\ a = SubSeq(b, 1, Len(a))

NoRepeat(a) == \A x, y \in 1..Len(a) : a[x] = a[y] => x = y

\* C12: of the reports the stream has yielded, those with a reproducer are
\* exactly the ones the executions were created for, once each, and each has
\* exactly one row once main is past the collection of its executions; those
\* without are exactly the separate list, and no execution ever belongs to
\* one of them.  In a run that completes, every fetched report was yielded,
\* the list is printed after every row, in fetch order, and holds exactly
\* the reports without a reproducer.
C12_OneOfTwoWays ==
    /\ tested = UrlsWhere(yielded, TRUE)
    /\ NoRepeat(tested)
    /\ [j \in 1..Len(issues_without_mcve) |-> issues_without_mcve[j].html_url]
         = UrlsWhere(yielded, FALSE)
    /\ \A k \in TOOLCHAINS :
         pc[k] # "none" => tested # <<>> /\ owner[k] = tested[Len(tested)]
    /\ IsPrefix(RowsOf(out), tested)
    /\ mainpc = "collect" => Len(RowsOf(out)) = Len(tested) - 1
    /\ mainpc # "collect" => RowsOf(out) = tested
    /\ mainpc # "done" => ListOf(out) = <<>>
    /\ mainpc = "done" =>
          /\ yielded = Fetched(pages)
          /\ RowsOf(out) = UrlsWhere(Fetched(pages), TRUE)
          /\ ListOf(out) = UrlsWhere(Fetched(pages), FALSE)
          /\ \A x, y \in 1..Len(out) :
               out[x].kind = "row" /\ out[y].kind \in {"title", "url"} => x < y


(* --------------------------------- C13 ---------------------------------- *)

\* C13: a rendered row is flagged as changed exactly when two adjacent
\* outcomes of it differ, which is exactly when its outcomes are not all the
\* same kind; a row of no outcome or of one outcome is never flagged.
C13_ChangedIffNotAllEqual ==
    lastRow # NoRow =>
        LET r == lastRow.results
            AdjacentDiffer == \E w \in 1..Len(r) : w < Len(r) /\ r[w] # r[w + 1]
            AllEqual == \A x, y \in 1..Len(r) : r[x] = r[y]
        IN  /\ lastRow.changed <=> AdjacentDiffer
            /\ lastRow.changed <=> ~AllEqual
            /\ Len(r) <= 1 => ~lastRow.changed

\* a row of three or more outcomes whose first and last agree was rendered as
\* changed
C13_Witness ==
    /\ lastRow # NoRow
    /\ Len(lastRow.results) >= 3
    /\ lastRow.results[1] = lastRow.results[Len(lastRow.results)]
    /\ lastRow.changed


(* --------------------------------- C14 ---------------------------------- *)

\* C14: get_issues requests the pages 1, 2, ... in order, one fetch per
\* page, and never requests a page after one without a `next` link; the
\* items it has yielded, followed by those of the current page still to be
\* yielded, are the items of all the pages received, each once, in page
\* order and within-page order; and it ends only after a page without a
\* `next` link, having fetched exactly as many times as there are pages and
\* yielded every item.
C14_Pagination ==
    /\ \A p \in 1..Len(pages) : pages[p].url = p
    /\ \A p \in 1..Len(pages) : p < Len(pages) => pages[p].next
    /\ yielded \o buffered = Fetched(pages)
    /\ NoRepeat([j \in 1..Len(yielded) |-> yielded[j].html_url])
    /\ fetch_error = None =>
          /\ fetches = Len(pages)
          /\ next_url # None <=> (pages = <<>> \/ pages[Len(pages)].next)
    /\ mainpc = "done" =>
          /\ pages # <<>>
          /\ ~pages[Len(pages)].next
          /\ fetches = Len(pages)
          /\ yielded = Fetched(pages)

\* the run has ended after two pages with an item each
C14_Witness ==
    /\ mainpc = "done"
    /\ Len(pages) >= 2
    /\ \A p \in 1..Len(pages) : pages[p].items # <<>>
    /\ fetches = Len(pages)


(* --------------------------------- C15 ---------------------------------- *)

\* the temporary files the execution of toolchain k has created
PathsOf(k) ==
    { f[1] : f \in { tmp[k].stdin_path, tmp[k].artifact_path,
                     tmp[k].stdout_path } \ { None } }

\* the number of temporary files the execution of toolchain k has created
NumPaths(k) ==
    Cardinality({ x \in {"in", "artifact", "capture"} :
                    CASE x = "in" -> tmp[k].stdin_path # None
                      [] x = "artifact" -> tmp[k].artifact_path # None
                      [] OTHER -> tmp[k].stdout_path # None })

\* C15: the executions of a report have no temporary file in common, and the
\* input, artifact and capture files of one execution are distinct files;
\* the files an execution creates are none of the files that exist when it
\* creates them, those left by the executions of earlier reports included.
C15_TempFilesPrivate ==
    /\ [](\A k \in TOOLCHAINS :
            /\ Cardinality(PathsOf(k)) = NumPaths(k)
            /\ \A l \in TOOLCHAINS : l # k => PathsOf(k) \cap PathsOf(l) = {})
    /\ [][\A k \in TOOLCHAINS :
            pc[k] = "created" /\ pc'[k] # "created" =>
               /\ PathsOf(k) = {}
               /\ PathsOf(k)' \cap files = {}
               /\ \A l \in TOOLCHAINS : l # k => PathsOf(k)' \cap PathsOf(l) = {}]_vars

\* the executions of the second report with a reproducer have three files
\* each while files of the executions of the first are still there
C15_Witness ==
    /\ \A k \in TOOLCHAINS : pc[k] = "waiting" /\ NumPaths(k) = 3 /\ owner[k] = 2
    /\ \E k \in TOOLCHAINS : TempName(1, k, 1) \in files


(* --------------------------------- C16 ---------------------------------- *)

\* the content of the first block of a body that is tagged rust, if any
RECURSIVE FirstRustBlock(_)
FirstRustBlock(body) ==
    IF body = <<>> THEN None
    ELSE IF IsRustBlock(Head(body)) THEN Some(Head(body).content)
         ELSE FirstRustBlock(Tail(body))

\* C16: once main has taken a report, its reproducer is the trimmed content
\* of the first block of its body tagged rust, whatever blocks follow, and
\* the report is tested with it; a report whose body has no block tagged
\* rust has no reproducer and is put on the list instead.
C16_FirstRustBlock ==
    yielded # <<>> =>
        LET first == FirstRustBlock(yielded[1].body)
        IN  IF first = None
            THEN /\ mcve = None
                 /\ tested = <<>>
                 /\ issues_without_mcve = yielded
            ELSE /\ mcve = Some(trim(first[1]))
                 /\ tested = <<1>>
                 /\ issues_without_mcve = <<>>


(* --------------------------------- C17 ---------------------------------- *)

\* the number of rows of the output
NumRows(o) == Cardinality({ e \in 1..Len(o) : o[e].kind = "row" })

\* C17: the row counter equals the number of rows rendered so far, whatever
\* that number is, so that reports without a reproducer do not advance it;
\* the row just rendered has the header row immediately before it exactly
\* when its 0-based index among the rows is a multiple of 10, and a header
\* row is printed nowhere but immediately before a row.
C17_HeaderEveryTen ==
    /\ i = NumRows(out)
    /\ lastRow # NoRow =>
          /\ Len(out) >= 2
          /\ out[Len(out)].kind = "row"
          /\ (out[Len(out) - 1].kind = "header")
               <=> ((NumRows(out) - 1) % HeaderEvery = 0)
    /\ \A e \in 1..Len(out) :
          out[e].kind = "header" => e < Len(out) /\ out[e + 1].kind = "row"


(* --------------------------------- C18 ---------------------------------- *)

====
